---- MODULE Spec2Model ----
(***************************************************************************)
(* polyssifier.poly: k-fold cross-validation of a battery of classifiers,  *)
(* with a model cache on disk, a sequential or pooled dispatch of the      *)
(* (classifier, fold) work units, the aggregation of the fold results and  *)
(* a voting ensemble.  Rows and folds are numbered from 0 as in the code.  *)
(***************************************************************************)
EXTENDS Integers, Sequences, FiniteSets, TLC

\* ------------------------------------------------------------------ bounds
NRows == 4            \* data.shape[0]
NFolds == 2           \* n_folds
MaxRuns == 2          \* calls of poly in sequence, on the same disk

Rows == 0..(NRows - 1)
Folds == 0..(NFolds - 1)

\* ------------------------------------------------------------- the inputs
\* The raw labels of the two classes; LabelEncoder maps them to 0 and 1.
RawLabels == {10, 20}

\* Label vectors, sorted by class (the fold plan ranges over every stratified
\* partition, so the order of the rows loses nothing); one row short of the
\* data for the row-count mismatch.
LabelVectors ==
    { [r \in 0..(len - 1) |-> IF r < k THEN 10 ELSE 20] :
          k \in 1..NRows, len \in {NRows - 1, NRows} }

\* The battery that build_classifiers can return: per classifier, whether the
\* template is a pipeline, whether it has a parameter grid, which of
\* predict_proba / decision_function the fitted object has (every one has
\* predict), and which of coef_ / feature_importances_ its terminal
\* estimator has.
Battery ==
    [ lsvm   |-> [pipeline |-> TRUE,  parameters |-> TRUE,
                  has |-> {"decision_function"}, attr |-> "coef_"],
      sgd    |-> [pipeline |-> FALSE, parameters |-> FALSE,
                  has |-> {"decision_function"}, attr |-> "coef_"],
      gboost |-> [pipeline |-> FALSE, parameters |-> TRUE,
                  has |-> {"predict_proba", "decision_function"},
                  attr |-> "feature_importances_"],
      hard   |-> [pipeline |-> TRUE,  parameters |-> FALSE,
                  has |-> {}, attr |-> "none"] ]

BatteryOrder == <<"lsvm", "sgd", "gboost", "hard">>

\* The values of `exclude` tried: they leave lsvm and sgd, lsvm and gboost,
\* gboost alone, hard alone.
Excludes == { {"gboost", "hard"}, {"sgd", "hard"},
              {"lsvm", "sgd", "hard"}, {"lsvm", "sgd", "gboost"} }

\* The values of `concurrency` tried, and the processes there can be.
Concurrencies == {1, 2}
Processes == 1..2

\* build_classifiers(exclude, ...): the battery without the excluded names,
\* in the battery's order.
build_classifiers(exclude) ==
    SelectSeq(BatteryOrder, LAMBDA c : c \notin exclude)

Range(s) == { s[i] : i \in DOMAIN s }

\* ------------------------------------------------------ label encoding
\* LabelEncoder.fit: the sorted distinct labels; transform: a label's rank.
classes_(lab) == Range(lab)
transform(lab, v) == Cardinality({ c \in classes_(lab) : c < v })
inverse_transform(lab, i) ==
    CHOOSE c \in classes_(lab) : transform(lab, c) = i

\* ------------------------------------------------------------- fold plan
\* A fold plan: per fold the train and the test rows, the test sets a
\* partition of the rows, stratified: each class is spread over the folds as
\* evenly as its size allows, and (the split is not shuffled) the rows of a
\* class go to the folds in row order.
CountIn(lab, S, c) == Cardinality({ r \in S : lab[r] = c })

Stratified(lab, assign) ==
    /\ \A c \in classes_(lab) : \A n \in Folds :
          LET k == CountIn(lab, { r \in Rows : assign[r] = n }, c)
              q == CountIn(lab, Rows, c) \div NFolds
          IN  k \in {q, q + 1}
    /\ \A r, s \in Rows : (lab[r] = lab[s] /\ r < s) => assign[r] <= assign[s]

StratifiedKFold(lab) ==
    { [n \in Folds |-> << { r \in Rows : assign[r] # n },
                          { r \in Rows : assign[r] = n } >>] :
          assign \in { a \in [Rows -> Folds] : Stratified(lab, a) } }

\* skf.split raises when the labels are not one per row, or when no class
\* has n_folds members.
PlannerRaises(lab) ==
    \/ DOMAIN lab # Rows
    \/ \A c \in classes_(lab) : CountIn(lab, Rows, c) < NFolds

\* ------------------------------------------------- the fitted classifiers
NoClf == [name |-> "none"]

\* clone the template, wrap it in GridSearchCV if it has parameters, fit it
\* on the training rows: the fitted object remembers what it was fitted on,
\* the rows and their labels.
Fit(clf_name, train, y) ==
    [name |-> clf_name, train |-> train,
     y |-> [t \in train |-> y[t]],
     grid |-> Battery[clf_name].parameters,
     classes |-> { y[r] : r \in train }]

hasattr(clf, a) ==
    CASE a \in {"predict_proba", "decision_function"} ->
             IF clf.name = "MyVoter" THEN FALSE ELSE a \in Battery[clf.name].has
      [] a = "steps" ->
             clf.name # "MyVoter" /\ ~clf.grid /\ Battery[clf.name].pipeline
      [] a = "best_estimator_" -> clf.name # "MyVoter" /\ clf.grid
      [] OTHER -> FALSE

\* clf.predict on one row: the most frequent training label, the lowest on
\* a tie (any deterministic function of the fitted object and the row
\* serves; this one depends on the training rows).
Majority(votes) ==
    LET n0 == Cardinality({ i \in DOMAIN votes : votes[i] = 0 })
        n1 == Cardinality({ i \in DOMAIN votes : votes[i] = 1 })
    IN  IF n1 > n0 THEN 1 ELSE 0

predict(clf, y, r) ==
    IF clf.name = "MyVoter"
    THEN Majority([ m \in clf.estimators |-> Majority(m.y) ])
    ELSE Majority(clf.y)

\* _scorer(clf, X, y): the metric, the method that produced ypred, and what
\* it was computed from (the metric itself is the library's).
_scorer(clf, rows, y) ==
    LET n_class == Cardinality({ y[r] : r \in rows })
    IN  IF n_class = 2
        THEN [metric |-> "roc_auc",
              via |-> IF hasattr(clf, "predict_proba") THEN "predict_proba"
                      ELSE IF hasattr(clf, "decision_function")
                           THEN "decision_function"
                           ELSE "predict",
              clf |-> clf, rows |-> rows]
        ELSE [metric |-> "f1", via |-> "predict", clf |-> clf, rows |-> rows]

\* confusion_matrix(y[rows], ypred): one row and column per label that
\* occurs in either, in sorted order; ypred is aligned with the rows in
\* ascending order.
confusion_matrix(y_true, rows, ypred) ==
    LET idx == 1..Cardinality(rows)
        true == [k \in idx |-> y_true[(CHOOSE s \in rows : Cardinality({ t \in rows : t <= s }) = k)]]
        labs == { true[k] : k \in idx } \cup { ypred[k] : k \in idx }
        rank(v) == Cardinality({ l \in labs : l < v })
        d == Cardinality(labs)
    IN  [dim |-> d,
         cell |-> [ij \in (0..(d - 1)) \X (0..(d - 1)) |->
                     Cardinality({ k \in idx : rank(true[k]) = ij[1]
                                               /\ rank(ypred[k]) = ij[2] })]]

\* --------------------------------------------------------------- fit_clf
project_name == "demo"

models_dir == "poly_" \o project_name \o "/models"

\* 'poly_{}/models/{}_{}.p'.format(project_name, clf_name, n_fold + 1)
file_name_without_fold(clf_name, n_fold) ==
    "poly_" \o project_name \o "/models/" \o clf_name \o ".p"

file_name(clf_name, n_fold) ==
    "poly_" \o project_name \o "/models/" \o clf_name \o "_"
        \o ToString(n_fold + 1) \o ".p"

\* An index array: the rows of a set in ascending order.
Pos(idx, s) == Cardinality({ t \in idx : t <= s })
IndexArray(idx) ==
    [k \in 1..Cardinality(idx) |-> CHOOSE s \in idx : Pos(idx, s) = k]

\* The held-out probabilities or decision scores: predict_proba gives, per
\* test row, one value per class the model was fitted on; decision_function
\* one value per test row; with neither the name yprob stays unbound.
Yprob(clf, test) ==
    LET rows == IndexArray(test)
    IN  IF hasattr(clf, "predict_proba")
        THEN [bound |-> TRUE, via |-> "predict_proba",
              shape |-> <<Len(rows), Cardinality(clf.classes)>>,
              value |-> [k \in DOMAIN rows |->
                           [j \in 1..Cardinality(clf.classes) |->
                              [clf |-> clf, row |-> rows[k], class |-> j - 1]]]]
        ELSE IF hasattr(clf, "decision_function")
             THEN [bound |-> TRUE, via |-> "decision_function",
                   shape |-> <<Len(rows)>>,
                   value |-> [k \in DOMAIN rows |->
                                [clf |-> clf, row |-> rows[k]]]]
             ELSE [bound |-> FALSE]

\* The terminal estimator whose coefficients are read: the pipeline's last
\* step, the grid search's best estimator (or its last step), and otherwise
\* the name temp stays unbound.
Temp(clf) ==
    IF hasattr(clf, "steps")
    THEN [bound |-> TRUE, attr |-> Battery[clf.name].attr]
    ELSE IF hasattr(clf, "best_estimator_")
         THEN [bound |-> TRUE, attr |-> Battery[clf.name].attr]
         ELSE [bound |-> FALSE]

\* try: coef_, else feature_importances_, else None; except: None.  Reading
\* the unbound temp raises inside the try and is caught by the bare except.
CoefficientsWithoutTry(clf) ==
    LET temp == Temp(clf)
    IN  IF ~temp.bound
        THEN [raised |-> TRUE, value |-> "None"]
        ELSE [raised |-> FALSE,
              value |-> IF temp.attr = "none" THEN "None" ELSE temp.attr]

Coefficients(clf) ==
    LET temp == Temp(clf)
    IN  IF ~temp.bound
        THEN [raised |-> FALSE, value |-> "None"]
        ELSE IF temp.attr = "coef_"
             THEN [raised |-> FALSE, value |-> "coef_"]
             ELSE IF temp.attr = "feature_importances_"
                  THEN [raised |-> FALSE, value |-> "feature_importances_"]
                  ELSE [raised |-> FALSE, value |-> "None"]

\* Lines 210-249 of fit_clf for a fitted or loaded clf: the scores, the
\* held-out predictions, the confusion matrix, the coefficients, and the
\* returned tuple; building the tuple raises when yprob is unbound.
FoldResult(clf, n_fold, plan, y) ==
    LET train == plan[n_fold][1]
        test == plan[n_fold][2]
        ypred == [k \in 1..Cardinality(test) |->
                    predict(clf, y, IndexArray(test)[k])]
        yprob == Yprob(clf, test)
        coefs == Coefficients(clf)
    IN  IF coefs.raised
        THEN [raised |-> "coefficients"]
        ELSE IF ~yprob.bound
             THEN [raised |-> "UnboundLocalError"]
             ELSE [raised |-> "no",
                   train_score |-> _scorer(clf, train, y),
                   test_score |-> _scorer(clf, test, y),
                   ypred |-> ypred,
                   yprob |-> yprob,
                   confusion |-> confusion_matrix(y, test, ypred),
                   coefficients |-> coefs.value,
                   clf |-> clf]

\* ------------------------------------------------------------- the state
VARIABLES
    label,         \* the raw label vector given to poly
    classifiers,   \* the names build_classifiers returned, in order
    fitFails,      \* the (classifier, fold) units whose clf.fit raises
    run,           \* the number of the current call of poly
    save,          \* poly's argument
    concurrency,   \* poly's argument
    pc,            \* where poly is
    kf,            \* the fold plan
    args2,         \* the work units, in dispatch order
    nextTask,      \* the next unit of args2 to hand out
    wpc,           \* per worker: where it is in fit_clf
    wunit,         \* per worker: the index in args2 of its unit
    wclf,          \* per worker: its local clf
    outqueue,      \* <<index, fit_clf outcome>> in order of completion
    result,        \* the list starmap returned
    gathered,      \* classifiers the gather loop has finished
    scores, predictions, test_prob, confusions, coefficients, fitted_clfs,
    writes,        \* per classifier and row: the folds that wrote its slot
    prob_writes,   \* the same for the slots of test_prob
    dirs,          \* the directories on disk
    files,         \* the model files on disk: name and pickled clf
    confusions_pkl,\* whether poly_<project>/confusions.pkl is on disk
    fitted,        \* the units this run fitted
    loaded,        \* the units this run loaded from the cache
    cache0,        \* the model files on disk when this run started
    hist           \* what earlier runs started from and returned

inputs == <<label, classifiers, fitFails>>
runArgs == <<run, save, concurrency>>
pool == <<nextTask, wpc, wunit, wclf, outqueue>>
tables == <<scores, predictions, test_prob, confusions, coefficients,
            fitted_clfs, writes, prob_writes>>
disk == <<dirs, files, confusions_pkl>>
vars == <<inputs, runArgs, pc, kf, args2, pool, result, gathered, tables,
          disk, fitted, loaded, cache0, hist>>

Workers == 1..concurrency

\* label = _le.transform(label)
y == [r \in DOMAIN label |-> transform(label, label[r])]
n_class == Cardinality(classes_(label))

Units(clfs) ==
    { <<clfs[i], n>> : i \in DOMAIN clfs, n \in Folds }

\* args2: one unit per classifier and fold, classifier-major.
Args2FoldMajor(clfs) ==
    [k \in 1..(Len(clfs) * NFolds) |->
        << clfs[((k - 1) % Len(clfs)) + 1], (k - 1) \div Len(clfs) >>]

Args2(clfs) ==
    [k \in 1..(Len(clfs) * NFolds) |->
        << clfs[((k - 1) \div NFolds) + 1], (k - 1) % NFolds >>]

\* os.path.isfile(file_name), and joblib.load(file_name).
CacheNeverHits(name) == FALSE

FileExists(name) == \E f \in files : f.name = name
FileContent(name) == (CHOOSE f \in files : f.name = name).clf

\* What joblib.dump has written of a model file when the process is killed
\* before the pickle is complete; joblib.load raises on it.
Truncated == [name |-> "truncated"]

\* An empty cell of the scores table.
NaN == [metric |-> "NaN"]

\* The run-local state at the start of a call of poly.
FreshRun ==
    /\ pc = "start"
    /\ args2 = <<>> /\ nextTask = 1
    /\ wpc = [w \in Processes |-> "idle"]
    /\ wunit = [w \in Processes |-> 0]
    /\ wclf = [w \in Processes |-> NoClf]
    /\ outqueue = <<>> /\ result = <<>> /\ gathered = 0
    /\ scores = <<>> /\ predictions = <<>> /\ test_prob = <<>>
    /\ confusions = <<>> /\ coefficients = <<>> /\ fitted_clfs = <<>>
    /\ writes = <<>> /\ prob_writes = <<>>
    /\ fitted = {} /\ loaded = {}
    /\ cache0 = files

Init ==
    /\ label \in LabelVectors
    /\ \E exclude \in Excludes : classifiers = build_classifiers(exclude)
    /\ fitFails \in { S \in SUBSET Units(classifiers) : Cardinality(S) <= 1 }
    /\ run = 1
    /\ save \in BOOLEAN
    /\ concurrency \in Concurrencies
    /\ kf = <<>>
    /\ dirs = {} /\ files = {} /\ confusions_pkl = FALSE
    /\ hist = <<>>
    /\ FreshRun

\* ------------------------------------------------------------------ poly
\* assert label.shape[0] == data.shape[0]
assert_stripped(lab) == TRUE

assert_rows(lab) == Cardinality(DOMAIN lab) = NRows

\* Lines 50-99: the row-count assertion, the label encoding, the cache
\* directory, the empty tables, the fold plan and the work units.  The split
\* is not shuffled: a later run on the same labels gets the same plan.
Prepare ==
    /\ pc = "start"
    /\ IF ~assert_rows(label)
       THEN /\ pc' = "failed"
            /\ UNCHANGED <<kf, args2, tables, disk>>
       ELSE /\ dirs' = IF save /\ models_dir \notin dirs
                       THEN dirs \cup {models_dir} ELSE dirs
            /\ UNCHANGED <<files, confusions_pkl>>
            /\ scores' = [c \in Range(classifiers) |->
                            [n \in Folds |-> [train |-> NaN, test |-> NaN]]]
            \* -1 stands for the empty (NaN) cell of np.empty + np.nan
            /\ predictions' = [c \in Range(classifiers) |-> [r \in Rows |-> -1]]
            /\ test_prob' = [c \in Range(classifiers) |-> [r \in Rows |-> -1]]
            /\ UNCHANGED <<confusions, coefficients, fitted_clfs, writes, prob_writes>>
            /\ IF PlannerRaises(y)
               THEN pc' = "failed" /\ UNCHANGED <<kf, args2>>
               ELSE /\ kf' \in IF kf = <<>> THEN StratifiedKFold(y) ELSE {kf}
                    /\ args2' = Args2(classifiers)
                    /\ pc' = "dispatch"
    /\ UNCHANGED <<inputs, runArgs, pool, result, gathered, fitted, loaded, cache0, hist>>

Raised == { i \in 1..Len(outqueue) : outqueue[i][2].raised # "no" }

UnitFile(w) == file_name(args2[wunit[w]][1], args2[wunit[w]][2])

\* starmap / pool.starmap hands the next unit to a process that is free (the
\* processes are alike: the free one of lowest number stands for any); the
\* in-process starmap stops at the first unit that raised.
\* fit_clf lines 191-197, up to os.path.isfile(file_name).
TakeTask(w) ==
    /\ pc = "dispatch"
    /\ wpc[w] = "idle"
    /\ \A v \in Workers : v < w => wpc[v] # "idle"
    /\ nextTask <= Len(args2)
    /\ concurrency > 1 \/ Raised = {}
    /\ wunit' = [wunit EXCEPT ![w] = nextTask]
    /\ nextTask' = nextTask + 1
    /\ wpc' = [wpc EXCEPT ![w] =
                 IF FileExists(file_name(args2[nextTask][1], args2[nextTask][2]))
                 THEN "load" ELSE "fit"]
    /\ UNCHANGED <<inputs, runArgs, pc, kf, args2, wclf, outqueue, result,
                   gathered, tables, disk, fitted, loaded, cache0, hist>>

\* fit_clf line 199, clf = joblib.load(file_name), and lines 210-249; the
\* load raises on a file that is not a complete pickle.
Load(w) ==
    /\ pc = "dispatch"
    /\ wpc[w] = "load"
    /\ IF FileContent(UnitFile(w)) = Truncated
       THEN /\ outqueue' = Append(outqueue, <<wunit[w], [raised |-> "load"]>>)
            /\ UNCHANGED loaded
       ELSE /\ loaded' = loaded \cup {args2[wunit[w]]}
            /\ outqueue' = Append(outqueue,
                      <<wunit[w], FoldResult(FileContent(UnitFile(w)),
                                             args2[wunit[w]][2], kf, y)>>)
    /\ wpc' = [wpc EXCEPT ![w] = "idle"]
    /\ UNCHANGED <<inputs, runArgs, pc, kf, args2, nextTask, wunit, wclf,
                   result, gathered, tables, disk, fitted, cache0, hist>>

\* clf.fit(X, y) raises for this unit, and fit_clf does not catch it.
fit_swallowed(unit) == FALSE

fit_raises(unit) == unit \in fitFails

\* fit_clf lines 201-207: clone, wrap, fit; a fit that raises ends the unit;
\* with save the fitted clf is about to be dumped, without it lines 210-249
\* follow.
FitStep(w) ==
    /\ pc = "dispatch"
    /\ wpc[w] = "fit"
    /\ fitted' = fitted \cup {args2[wunit[w]]}
    /\ LET clf == Fit(args2[wunit[w]][1], kf[args2[wunit[w]][2]][1], y)
       IN  IF fit_raises(args2[wunit[w]])
           THEN /\ outqueue' = Append(outqueue, <<wunit[w], [raised |-> "fit"]>>)
                /\ wpc' = [wpc EXCEPT ![w] = "idle"]
                /\ UNCHANGED wclf
           ELSE IF save
                THEN /\ wclf' = [wclf EXCEPT ![w] = clf]
                     /\ wpc' = [wpc EXCEPT ![w] = "dump"]
                     /\ UNCHANGED outqueue
                ELSE /\ outqueue' = Append(outqueue,
                            <<wunit[w], FoldResult(clf, args2[wunit[w]][2], kf, y)>>)
                     /\ wpc' = [wpc EXCEPT ![w] = "idle"]
                     /\ UNCHANGED wclf
    /\ UNCHANGED <<inputs, runArgs, pc, kf, args2, nextTask, wunit, result,
                   gathered, tables, disk, loaded, cache0, hist>>

\* fit_clf line 208, joblib.dump(clf, file_name), and lines 210-249.
DumpTemplate(w) ==
    /\ pc = "dispatch"
    /\ wpc[w] = "dump"
    /\ files' = { f \in files : f.name # UnitFile(w) }
                   \cup {[name |-> UnitFile(w),
                          clf |-> Fit(args2[wunit[w]][1], {}, y)]}
    /\ outqueue' = Append(outqueue,
                      <<wunit[w], FoldResult(wclf[w], args2[wunit[w]][2], kf, y)>>)
    /\ wpc' = [wpc EXCEPT ![w] = "idle"]
    /\ wclf' = [wclf EXCEPT ![w] = NoClf]
    /\ UNCHANGED <<inputs, runArgs, pc, kf, args2, nextTask, wunit, result,
                   gathered, tables, dirs, confusions_pkl, fitted, loaded,
                   cache0, hist>>

\* fit_clf line 208 (and 210-249) if it also reordered the shared fold plan.
DumpSwapsFold(w) ==
    /\ pc = "dispatch"
    /\ wpc[w] = "dump"
    /\ files' = { f \in files : f.name # UnitFile(w) }
                   \cup {[name |-> UnitFile(w), clf |-> wclf[w]]}
    /\ outqueue' = Append(outqueue,
                      <<wunit[w], FoldResult(wclf[w], args2[wunit[w]][2], kf, y)>>)
    /\ wpc' = [wpc EXCEPT ![w] = "idle"]
    /\ wclf' = [wclf EXCEPT ![w] = NoClf]
    /\ kf' = [kf EXCEPT ![args2[wunit[w]][2]] = <<@[2], @[1]>>]
    /\ UNCHANGED <<inputs, runArgs, pc, args2, nextTask, wunit, result,
                   gathered, tables, dirs, confusions_pkl, fitted, loaded,
                   cache0, hist>>

Dump(w) ==
    /\ pc = "dispatch"
    /\ wpc[w] = "dump"
    /\ files' = { f \in files : f.name # UnitFile(w) }
                   \cup {[name |-> UnitFile(w), clf |-> wclf[w]]}
    /\ outqueue' = Append(outqueue,
                      <<wunit[w], FoldResult(wclf[w], args2[wunit[w]][2], kf, y)>>)
    /\ wpc' = [wpc EXCEPT ![w] = "idle"]
    /\ wclf' = [wclf EXCEPT ![w] = NoClf]
    /\ UNCHANGED <<inputs, runArgs, pc, kf, args2, nextTask, wunit, result,
                   gathered, tables, dirs, confusions_pkl, fitted, loaded,
                   cache0, hist>>

AllIdle == \A w \in Workers : wpc[w] = "idle"

\* The list starmap returns: the outcome of unit i at position i, whatever
\* the order of completion.
CompletionOrderResult(q) == [i \in 1..Len(q) |-> q[i][2]]

StarmapResult(q) ==
    [i \in 1..Len(q) |-> (CHOOSE e \in Range(q) : e[1] = i)[2]]

\* Lines 101-106, no unit raised: result is the list of the Fold Results.
StarmapReturn ==
    /\ pc = "dispatch"
    /\ AllIdle
    /\ Len(outqueue) = Len(args2)
    /\ Raised = {}
    /\ result' = StarmapResult(outqueue)
    /\ fitted_clfs' = [c \in Range(classifiers) |-> <<>>]
    /\ pc' = "gather"
    /\ UNCHANGED <<inputs, runArgs, kf, args2, pool, gathered, scores,
                   predictions, test_prob, confusions, coefficients, writes,
                   prob_writes, disk, fitted, loaded, cache0, hist>>

\* Lines 101-106, a unit raised: the exception leaves poly (the in-process
\* starmap at once, the pool's once every unit has finished).
StarmapRaise ==
    /\ pc = "dispatch"
    /\ AllIdle
    /\ Raised # {}
    /\ concurrency = 1 \/ Len(outqueue) = Len(args2)
    /\ pc' = "failed"
    /\ UNCHANGED <<inputs, runArgs, kf, args2, pool, result, gathered, tables,
                   disk, fitted, loaded, cache0, hist>>

\* ------------------------------------------------------------ gathering
Zeros(k) == [dim |-> k, cell |-> [ij \in (0..(k - 1)) \X (0..(k - 1)) |-> 0]]

\* temp += confusion, with numpy's broadcasting: a 1 x 1 matrix is added to
\* every cell, any other shape than temp's raises.
CanAdd(temp, confusion) == confusion.dim \in {1, temp.dim}

MatAdd(temp, confusion) ==
    [dim |-> temp.dim,
     cell |-> [ij \in DOMAIN temp.cell |->
                 temp.cell[ij] + IF confusion.dim = temp.dim
                                 THEN confusion.cell[ij]
                                 ELSE confusion.cell[<<0, 0>>]]]

\* vec[idx] = val for a vector vec: val must broadcast to one slot per
\* index: a vector of that length (or of length 1), or an array whose
\* leading dimensions are all 1.
CanAssign(shape, k) ==
    IF Len(shape) = 1
    THEN shape[1] \in {1, k}
    ELSE shape[1] = 1 /\ shape[2] \in {1, k}

SetItem(vec, idx, shape, val) ==
    LET flat == IF Len(shape) = 1 THEN val ELSE val[1]
    IN  [s \in DOMAIN vec |->
            IF s \in idx
            THEN IF Len(flat) = 1 THEN flat[1] ELSE flat[Pos(idx, s)]
            ELSE vec[s]]

\* kf[n][1], the test indices of fold n (kf[n][0] are the train indices).
train_index(plan, n) == plan[n][1]

test_index(plan, n) == plan[n][2]

\* Lines 117-126, from fold n on: pop the head of result and place it at
\* fold n.
RECURSIVE GatherLoop(_, _, _)
GatherLoop(res, n, acc) ==
    IF n = NFolds \/ acc.raised # "no"
    THEN acc
    ELSE LET r == res[n + 1]
             test == test_index(kf, n)
             a1 == [acc EXCEPT
                      !.popped = @ + 1,
                      !.clfs = Append(@, r.clf),
                      !.col[n] = [train |-> r.train_score, test |-> r.test_score]]
             a2 == IF CanAdd(a1.temp, r.confusion)
                   THEN [a1 EXCEPT !.temp = MatAdd(@, r.confusion)]
                   ELSE [a1 EXCEPT !.raised = "ValueError"]
             a3 == IF a2.raised # "no" THEN a2
                   ELSE IF CanAssign(r.yprob.shape, Cardinality(test))
                        THEN [a2 EXCEPT
                                !.temp_prob = SetItem(@, test, r.yprob.shape,
                                                      r.yprob.value),
                                !.prob_writes = [s \in Rows |-> IF s \in test
                                    THEN Append(@[s], n) ELSE @[s]]]
                        ELSE [a2 EXCEPT !.raised = "ValueError"]
             a4 == IF a3.raised # "no" THEN a3
                   ELSE IF CanAssign(<<Len(r.ypred)>>, Cardinality(test))
                        THEN [a3 EXCEPT
                                !.temp_pred = SetItem(@, test, <<Len(r.ypred)>>,
                                    [k \in DOMAIN r.ypred |->
                                        inverse_transform(label, r.ypred[k])]),
                                !.writes = [s \in Rows |-> IF s \in test
                                    THEN Append(@[s], n) ELSE @[s]],
                                !.coefs = Append(@, r.coefficients)]
                        ELSE [a3 EXCEPT !.raised = "ValueError"]
         IN  GatherLoop(res, n + 1, a4)

\* Lines 111-130 for the next classifier: its folds' results are the next
\* n_folds entries of result.
GatherClf ==
    /\ pc = "gather"
    /\ gathered < Len(classifiers)
    /\ LET clf_name == classifiers[gathered + 1]
           acc == GatherLoop(result, 0,
                     [raised |-> "no", popped |-> 0, clfs |-> <<>>,
                      col |-> scores[clf_name],
                      temp |-> Zeros(n_class),
                      temp_pred |-> [s \in Rows |-> 0],
                      temp_prob |-> [s \in Rows |-> 0],
                      writes |-> [s \in Rows |-> <<>>],
                      prob_writes |-> [s \in Rows |-> <<>>],
                      coefs |-> <<>>])
       IN  /\ result' = SubSeq(result, acc.popped + 1, Len(result))
           /\ scores' = [scores EXCEPT ![clf_name] = acc.col]
           /\ fitted_clfs' = [fitted_clfs EXCEPT ![clf_name] = acc.clfs]
           /\ coefficients' = (clf_name :> acc.coefs) @@ coefficients
           /\ writes' = (clf_name :> acc.writes) @@ writes
           /\ prob_writes' = (clf_name :> acc.prob_writes) @@ prob_writes
           /\ IF acc.raised = "no"
              THEN /\ confusions' = (clf_name :> acc.temp) @@ confusions
                   /\ predictions' = [predictions EXCEPT ![clf_name] = acc.temp_pred]
                   /\ test_prob' = [test_prob EXCEPT ![clf_name] = acc.temp_prob]
                   /\ gathered' = gathered + 1
                   /\ pc' = IF gathered + 1 = Len(classifiers)
                            THEN "voting" ELSE "gather"
              ELSE /\ pc' = "failed"
                   /\ UNCHANGED <<confusions, predictions, test_prob, gathered>>
    /\ UNCHANGED <<inputs, runArgs, kf, args2, pool, disk, fitted, loaded,
                   cache0, hist>>

\* --------------------------------------------------------------- voting
\* MyVoter(estimators): predicts the majority of its estimators' predictions
\* and has neither predict_proba nor decision_function.
MyVoter(estimators) == [name |-> "MyVoter", estimators |-> estimators]

\* fitted_clfs.loc[n].values: row n of the table of fitted models, the model
\* of every base classifier for fold n.
fitted_clfs_first_row(n) ==
    { fitted_clfs[c][1] : c \in Range(classifiers) }

fitted_clfs_loc(n) ==
    { fitted_clfs[c][n + 1] : c \in Range(classifiers) }

\* Lines 138-145, from fold n on.
RECURSIVE VotingLoop(_, _)
VotingLoop(n, acc) ==
    IF n = NFolds \/ acc.raised # "no"
    THEN acc
    ELSE LET train == kf[n][1]
             test == kf[n][2]
             clf == MyVoter(fitted_clfs_loc(n))
             a1 == [acc EXCEPT
                      !.col[n] = [train |-> _scorer(clf, train, y),
                                  test |-> _scorer(clf, test, y)],
                      !.temp_pred = SetItem(@, test, <<Cardinality(test)>>,
                                            [k \in 1..Cardinality(test) |->
                                               predict(clf, y, IndexArray(test)[k])])]
             confusion == confusion_matrix(y, test,
                              [k \in 1..Cardinality(test) |->
                                  a1.temp_pred[IndexArray(test)[k]]])
             a2 == IF CanAdd(a1.temp, confusion)
                   THEN [a1 EXCEPT !.temp = MatAdd(@, confusion)]
                   ELSE [a1 EXCEPT !.raised = "ValueError"]
         IN  VotingLoop(n + 1, a2)

\* Lines 132-149.
Voting ==
    /\ pc = "voting"
    /\ LET acc == VotingLoop(0,
                     [raised |-> "no",
                      col |-> [n \in Folds |-> [train |-> 0, test |-> 0]],
                      temp |-> Zeros(n_class),
                      temp_pred |-> [s \in Rows |-> 0]])
       IN  /\ scores' = ("Voting" :> acc.col) @@ scores
           /\ IF acc.raised = "no"
              THEN /\ confusions' = ("Voting" :> acc.temp) @@ confusions
                   /\ predictions' = ("Voting" :> acc.temp_pred) @@ predictions
                   /\ test_prob' = ("Voting" :> acc.temp_pred) @@ test_prob
                   /\ pc' = "save"
              ELSE /\ pc' = "failed"
                   /\ UNCHANGED <<confusions, predictions, test_prob>>
    /\ UNCHANGED <<inputs, runArgs, kf, args2, pool, result, gathered,
                   coefficients, fitted_clfs, writes, prob_writes, disk,
                   fitted, loaded, cache0, hist>>

\* Lines 152-160: the confusions file, and the Report is returned.
FinishAlwaysDumps ==
    /\ pc = "save"
    /\ confusions_pkl' = TRUE
    /\ pc' = "done"
    /\ UNCHANGED <<inputs, runArgs, kf, args2, pool, result, gathered, tables,
                   dirs, files, fitted, loaded, cache0, hist>>

Finish ==
    /\ pc = "save"
    /\ confusions_pkl' = (confusions_pkl \/ save)
    /\ pc' = "done"
    /\ UNCHANGED <<inputs, runArgs, kf, args2, pool, result, gathered, tables,
                   dirs, files, fitted, loaded, cache0, hist>>

\* poly is called again on the same data, labels and battery, with the same
\* project name, on the disk the earlier call left.
NextRun ==
    /\ pc \in {"done", "failed", "interrupted"}
    /\ run < MaxRuns
    /\ hist' = Append(hist,
                  [label |-> label, save |-> save, concurrency |-> concurrency,
                   cache0 |-> cache0, outcome |-> pc, scores |-> scores,
                   predictions |-> predictions, confusions |-> confusions,
                   fitted |-> fitted, loaded |-> loaded])
    /\ run' = run + 1
    /\ save' \in BOOLEAN
    /\ concurrency' \in Concurrencies
    /\ pc' = "start"
    /\ args2' = <<>> /\ nextTask' = 1
    /\ wpc' = [w \in Processes |-> "idle"]
    /\ wunit' = [w \in Processes |-> 0]
    /\ wclf' = [w \in Processes |-> NoClf]
    /\ outqueue' = <<>> /\ result' = <<>> /\ gathered' = 0
    /\ scores' = <<>> /\ predictions' = <<>> /\ test_prob' = <<>>
    /\ confusions' = <<>> /\ coefficients' = <<>> /\ fitted_clfs' = <<>>
    /\ writes' = <<>> /\ prob_writes' = <<>>
    /\ fitted' = {} /\ loaded' = {}
    /\ cache0' = files
    /\ UNCHANGED <<inputs, kf, disk>>

\* The process running poly is killed (with the pool's processes) while the
\* units are at work: a process that was about to write or was writing its
\* model file leaves no file, a truncated one, or the whole file.  (A call
\* without save that is killed leaves the disk as it found it; the last call
\* within the bound is let run.)
Interrupt ==
    /\ pc = "dispatch"
    /\ save
    /\ run < MaxRuns
    /\ LET dumping == { w \in Workers : wpc[w] = "dump" }
       IN  \E left \in [dumping -> {"none", "truncated", "whole"}] :
              files' = files \cup
                  { [name |-> UnitFile(w),
                     clf |-> IF left[w] = "whole" THEN wclf[w] ELSE Truncated] :
                        w \in { v \in dumping : left[v] # "none" } }
    /\ pc' = "interrupted"
    /\ UNCHANGED <<inputs, runArgs, kf, args2, pool, result, gathered, tables,
                   dirs, confusions_pkl, fitted, loaded, cache0, hist>>

\* poly is called again with the same project name on other labels (a
\* dataset of the same number of rows): the fold plan is made anew.
NextRunOtherLabels ==
    /\ pc \in {"done", "failed"}
    /\ run < MaxRuns
    /\ hist' = Append(hist,
                  [label |-> label, save |-> save, concurrency |-> concurrency,
                   cache0 |-> cache0, outcome |-> pc, scores |-> scores,
                   predictions |-> predictions, confusions |-> confusions,
                   fitted |-> fitted, loaded |-> loaded])
    /\ label' \in { l \in LabelVectors : DOMAIN l = Rows /\ l # label }
    /\ kf' = <<>>
    /\ run' = run + 1
    /\ pc' = "start"
    /\ args2' = <<>> /\ nextTask' = 1
    /\ wpc' = [w \in Processes |-> "idle"]
    /\ wunit' = [w \in Processes |-> 0]
    /\ wclf' = [w \in Processes |-> NoClf]
    /\ outqueue' = <<>> /\ result' = <<>> /\ gathered' = 0
    /\ scores' = <<>> /\ predictions' = <<>> /\ test_prob' = <<>>
    /\ confusions' = <<>> /\ coefficients' = <<>> /\ fitted_clfs' = <<>>
    /\ writes' = <<>> /\ prob_writes' = <<>>
    /\ fitted' = {} /\ loaded' = {}
    /\ cache0' = files
    /\ UNCHANGED <<classifiers, fitFails, save, concurrency, disk>>

Next ==
    \/ Prepare
    \/ \E w \in Workers : TakeTask(w)
    \/ \E w \in Workers : Load(w)
    \/ \E w \in Workers : FitStep(w)
    \/ \E w \in Workers : Dump(w)
    \/ StarmapReturn
    \/ StarmapRaise
    \/ GatherClf
    \/ Voting
    \/ Finish
    \/ NextRun

Spec == Init /\ [][Next]_vars

\* The calls of poly when a call can be killed and the labels can change
\* from one call to the next; the first call has save, one label per row
\* and no fit that raises.
InitAnyRuns ==
    /\ Init
    /\ DOMAIN label = Rows
    /\ fitFails = {}
    /\ save

NextAnyRuns ==
    \/ Prepare
    \/ \E w \in Workers : TakeTask(w)
    \/ \E w \in Workers : Load(w)
    \/ \E w \in Workers : FitStep(w)
    \/ \E w \in Workers : Dump(w)
    \/ StarmapReturn
    \/ StarmapRaise
    \/ GatherClf
    \/ Voting
    \/ Finish
    \/ NextRun
    \/ Interrupt
    \/ NextRunOtherLabels

SpecAnyRuns == InitAnyRuns /\ [][NextAnyRuns]_vars

\* ------------------------------------------------------------ properties
\* What fit_clf returned for the unit (clf_name, n_fold) in this run.
UnitResult(clf_name, n_fold) ==
    (CHOOSE e \in Range(outqueue) : args2[e[1]] = <<clf_name, n_fold>>)[2]

\* C1: after poly completes, for every classifier every row's slot of the
\* prediction vector has been written exactly once, by the one fold whose
\* test set holds the row, with that unit's (inverse-transformed) held-out
\* prediction for the row.
C1_EveryRowOnceFromItsFold ==
    pc = "done" =>
        \A c \in Range(classifiers) : \A r \in Rows :
            /\ Len(writes[c][r]) = 1
            /\ LET n == writes[c][r][1]
               IN  /\ r \in kf[n][2]
                   /\ \A m \in Folds \ {n} : r \notin kf[m][2]
                   /\ predictions[c][r] =
                        inverse_transform(label,
                            UnitResult(c, n).ypred[Pos(kf[n][2], r)])

C1_Witness ==
    /\ pc = "done"
    /\ Len(classifiers) = 2
    /\ \E c \in Range(classifiers) : \E r, s \in Rows :
          /\ writes[c][r] # writes[c][s]
          /\ predictions[c][r] # predictions[c][s]

\* What the in-process starmap computes from the cache fs, unit after unit
\* in the order of args2, when no unit raises.
RECURSIVE InProcessStarmap(_, _, _)
InProcessStarmap(i, fs, acc) ==
    IF i > Len(args2)
    THEN acc
    ELSE LET name == file_name(args2[i][1], args2[i][2])
             hit == \E f \in fs : f.name = name
             clf == IF hit
                    THEN (CHOOSE f \in fs : f.name = name).clf
                    ELSE Fit(args2[i][1], kf[args2[i][2]][1], y)
             fs2 == IF hit \/ ~save
                    THEN fs ELSE fs \cup {[name |-> name, clf |-> clf]}
         IN  InProcessStarmap(i + 1, fs2,
                 Append(acc, FoldResult(clf, args2[i][2], kf, y)))

Returned(h) == <<h.scores, h.predictions, h.confusions>>

\* C2: whatever the concurrency and the interleaving of the pool's
\* processes, the list starmap hands to the aggregation is the one the
\* in-process starmap computes from the same cache; and a run that completes
\* returns the scores, predictions and confusions of an earlier completed run
\* that started from the same cache with another concurrency.
C2_ConcurrencyDoesNotChangeResults ==
    /\ (pc = "gather" /\ gathered = 0) =>
          result = InProcessStarmap(1, cache0, <<>>)
    /\ pc = "done" =>
          \A k \in DOMAIN hist :
              (/\ hist[k].outcome = "done"
               /\ hist[k].cache0 = cache0
               /\ hist[k].concurrency # concurrency)
              => Returned(hist[k]) = <<scores, predictions, confusions>>

C2_Witness ==
    /\ pc = "done"
    /\ concurrency > 1
    /\ \E i \in DOMAIN outqueue : outqueue[i][1] # i
    /\ \E k \in DOMAIN hist :
          /\ hist[k].outcome = "done"
          /\ hist[k].cache0 = cache0
          /\ hist[k].concurrency = 1

\* C3: a run with save that completes after a completed run with save (same
\* project name, data, labels, classifiers and n_folds) fits nothing, loads
\* every (classifier, fold) model from the cache, and returns the scores
\* table of the earlier run.
C3_RerunFromCacheSameScores ==
    (/\ pc = "done" /\ run > 1 /\ save
     /\ hist[run - 1].save /\ hist[run - 1].outcome = "done")
    => /\ fitted = {}
       /\ loaded = Units(classifiers)
       /\ scores = hist[run - 1].scores

C3_Witness ==
    /\ pc = "done" /\ run > 1 /\ save
    /\ hist[run - 1].save /\ hist[run - 1].outcome = "done"
    /\ hist[run - 1].fitted = Units(classifiers)
    /\ loaded = Units(classifiers)
    /\ Len(classifiers) = 2

\* The outcomes of fit_clf so far, each with its unit.
Outcomes == { [unit |-> args2[e[1]], out |-> e[2]] : e \in Range(outqueue) }

\* C4: for a classifier with neither predict_proba nor decision_function,
\* fit_clf does not raise (unless the fit itself does) and returns a Fold
\* Result whose scores come from hard predictions, with the held-out
\* predictions and a confusion matrix.
C4_NoProbabilitySupportStillReturns ==
    \A o \in Outcomes :
        (Battery[o.unit[1]].has = {} /\ ~fit_raises(o.unit))
        => /\ o.out.raised = "no"
           /\ o.out.train_score.via = "predict"
           /\ o.out.test_score.via = "predict"
           /\ Len(o.out.ypred) = Cardinality(kf[o.unit[2]][2])
           /\ o.out.confusion.dim >= 1

\* C5: when the label vector has another length than the data has rows,
\* poly fails at its first statement: no directory, no model file, no
\* confusions file, no unit dispatched, fitted or loaded.
C5_RowMismatchFailsBeforeAnything ==
    Cardinality(DOMAIN label) # NRows
    => /\ pc \in {"start", "failed"}
       /\ dirs = {} /\ files = {} /\ ~confusions_pkl
       /\ args2 = <<>> /\ nextTask = 1 /\ outqueue = <<>>
       /\ fitted = {} /\ loaded = {}
       /\ kf = <<>>

C5_Witness ==
    /\ Cardinality(DOMAIN label) # NRows
    /\ pc = "failed"
    /\ save
    /\ run > 1

\* C6: once clf.fit has raised for a unit of the run, in the in-process and
\* in the pooled dispatch alike, poly only fails: nothing is gathered, there
\* is no voting, no Report, and no confusions file.
FitFailed == \E o \in Outcomes : o.out.raised = "fit"

C6_FitFailureAbortsTheRun ==
    (fitted \cap { u \in Units(classifiers) : u \in fitFails } # {})
    => /\ pc \in {"dispatch", "failed"}
       /\ result = <<>> /\ gathered = 0
       /\ confusions = <<>> /\ coefficients = <<>>
       /\ "Voting" \notin DOMAIN scores
       /\ ~confusions_pkl

C6_Witness ==
    /\ pc = "failed" /\ FitFailed
    /\ concurrency > 1
    /\ \E o \in Outcomes : o.out.raised = "no"
    /\ run > 1 /\ hist[run - 1].concurrency = 1
    /\ hist[run - 1].outcome = "failed"
    /\ hist[run - 1].fitted \cap fitFails # {}

\* C7: fit_clf never raises out of the coefficient extraction: whatever the
\* fitted object is (pipeline, grid search around a pipeline or a bare
\* estimator, bare estimator) and whatever its terminal estimator exposes,
\* a returned Fold Result carries a coefficient vector or None.
C7_CoefficientExtractionNeverRaises ==
    \A o \in Outcomes :
        /\ o.out.raised # "coefficients"
        /\ o.out.raised = "no" =>
              o.out.coefficients \in {"coef_", "feature_importances_", "None"}
        /\ (~fit_raises(o.unit) /\ Battery[o.unit[1]].has # {}) =>
              o.out.raised = "no"

C7_Witness ==
    /\ \E o \in Outcomes :
          /\ ~Battery[o.unit[1]].pipeline /\ ~Battery[o.unit[1]].parameters
          /\ o.out.raised = "no" /\ o.out.coefficients = "None"
    /\ \E o \in Outcomes :
          /\ Battery[o.unit[1]].pipeline /\ Battery[o.unit[1]].parameters
          /\ o.out.raised = "no" /\ o.out.coefficients = "coef_"

\* What the gather loop of the classifier at position ci builds when the
\* result list is res.
Gathered(res, ci) ==
    GatherLoop(SubSeq(res, (ci - 1) * NFolds + 1, Len(res)), 0,
               [raised |-> "no", popped |-> 0, clfs |-> <<>>,
                col |-> [n \in Folds |-> [train |-> NaN, test |-> NaN]],
                temp |-> Zeros(n_class),
                temp_pred |-> [s \in Rows |-> 0],
                temp_prob |-> [s \in Rows |-> 0],
                writes |-> [s \in Rows |-> <<>>],
                prob_writes |-> [s \in Rows |-> <<>>],
                coefs |-> <<>>])

\* C8 as stated: in whatever order the Fold Results stand in the result
\* list, the gather loops put the scores of (classifier c, fold n) at row n
\* of column c (taken over the runs whose gathering does not raise).
C8_AnyDeliveryOrder ==
    (/\ pc = "gather" /\ gathered = 0
     /\ \A ci \in DOMAIN classifiers : Gathered(result, ci).raised = "no")
    =>  \A p \in Permutations(DOMAIN result) :
            \A ci \in DOMAIN classifiers : \A n \in Folds :
                Gathered([i \in DOMAIN result |-> result[p[i]]], ci).col[n]
                  = [train |-> UnitResult(classifiers[ci], n).train_score,
                     test |-> UnitResult(classifiers[ci], n).test_score]

\* C8 as amended: the gather loops place by position; starmap returns the
\* Fold Results in dispatch order whatever the order of completion, so once
\* the gathering is done the result of (c, n) is at scores row n / column c,
\* at fold n's test indices of c's predictions, and at position n of c's
\* coefficients and fitted models.
C8_PlacedByDispatchPosition ==
    /\ (pc = "gather" /\ gathered = 0) =>
          \A i \in DOMAIN result :
              result[i] = UnitResult(args2[i][1], args2[i][2])
    /\ pc \in {"voting", "save", "done"} =>
          \A c \in Range(classifiers) : \A n \in Folds :
              LET r == UnitResult(c, n)
              IN  /\ scores[c][n] = [train |-> r.train_score,
                                     test |-> r.test_score]
                  /\ coefficients[c][n + 1] = r.coefficients
                  /\ fitted_clfs[c][n + 1] = r.clf
                  /\ r.clf.name = c
                  /\ \A s \in kf[n][2] :
                        predictions[c][s] =
                          inverse_transform(label, r.ypred[Pos(kf[n][2], s)])

C8_Witness ==
    /\ pc = "done"
    /\ Len(classifiers) = 2
    /\ outqueue[1][1] # 1
    /\ \E i \in DOMAIN outqueue :
          i < Len(outqueue) /\ outqueue[i][1] > outqueue[i + 1][1]

\* C9: the model file names of a run's units are pairwise distinct, every
\* unit is handed out once, and no two processes are ever inside fit_clf on
\* the same model file (reading it, or fitting to write it, or writing it).
Busy == { w \in Workers : wpc[w] # "idle" }

C9_NoTwoWorkersOnOneModelFile ==
    /\ \A i, j \in DOMAIN args2 :
          i # j => /\ args2[i] # args2[j]
                   /\ file_name(args2[i][1], args2[i][2])
                        # file_name(args2[j][1], args2[j][2])
    /\ \A v, w \in Busy : v # w =>
          /\ wunit[v] # wunit[w]
          /\ UnitFile(v) # UnitFile(w)
    /\ \A i, j \in DOMAIN outqueue : i # j => outqueue[i][1] # outqueue[j][1]
    /\ \A w \in Busy : \A i \in DOMAIN outqueue : outqueue[i][1] # wunit[w]

C9_Witness ==
    /\ pc = "dispatch"
    /\ \E v, w \in Busy : v # w /\ wpc[v] = "dump" /\ wpc[w] = "dump"
    /\ files # {}

\* C10: a run with save = False changes nothing on disk (no directory, no
\* model file, no confusions file); a run with save = True that completes
\* ends with the cache directory, a model file for every (classifier, fold)
\* of the run, and the confusions file.
C10_SaveDecidesWhatIsPersisted ==
    /\ [][~save => UNCHANGED disk]_vars
    /\ [](pc = "done" /\ save =>
            /\ models_dir \in dirs
            /\ \A u \in Units(classifiers) : FileExists(file_name(u[1], u[2]))
            /\ confusions_pkl)

C10_Witness ==
    /\ pc = "done" /\ ~save
    /\ run > 1
    /\ hist[run - 1].save /\ hist[run - 1].outcome = "done"
    /\ loaded = Units(classifiers)
    /\ Cardinality(files) = Len(args2)

\* The runs so far, the current one last: whether the run had save and has
\* completed, and the units it fitted.
SaveRuns ==
    [k \in 1..run |->
        IF k < run
        THEN [completed |-> hist[k].save /\ hist[k].outcome = "done",
              fitted |-> hist[k].fitted]
        ELSE [completed |-> save /\ pc = "done", fitted |-> fitted]]

\* C11: the presence of the unit's model file when fit_clf starts decides
\* alone: with the file the model is loaded, nothing is fitted and the file
\* stays as it was; without it the template is fitted on the fold's training
\* rows, and the fitted model is on disk afterwards exactly when save is set.
\* So over the completed runs with save, a (classifier, fold) unit is fitted
\* at most once.
C11_FileIsTheSoleCacheSignal ==
    /\ \A w \in Busy :
          LET u == args2[wunit[w]]
          IN  /\ wpc[w] = "load" =>
                    /\ u \notin fitted
                    /\ \E f \in cache0 : f.name = UnitFile(w) /\ f \in files
              /\ wpc[w] = "fit" => \A f \in files : f.name # UnitFile(w)
              /\ wpc[w] = "dump" =>
                    /\ save /\ \A f \in files : f.name # UnitFile(w)
                    /\ wclf[w] = Fit(u[1], kf[u[2]][1], y)
    /\ \A o \in Outcomes :
          LET u == o.unit
              name == file_name(u[1], u[2])
          IN  /\ (u \in loaded) # (u \in fitted)
              /\ u \in loaded =>
                    \E f \in cache0 :
                        /\ f.name = name /\ f \in files
                        /\ o.out.raised = "no" => o.out.clf = f.clf
              /\ u \in fitted =>
                    /\ \A f \in cache0 : f.name # name
                    /\ (\E f \in files : f.name = name)
                          <=> (save /\ ~fit_raises(u))
                    /\ \A f \in files : f.name = name =>
                          f.clf = Fit(u[1], kf[u[2]][1], y)
                    /\ o.out.raised = "no" =>
                          o.out.clf = Fit(u[1], kf[u[2]][1], y)
    /\ \A j, k \in DOMAIN SaveRuns :
          (j < k /\ SaveRuns[j].completed /\ SaveRuns[k].completed)
          => SaveRuns[j].fitted \cap SaveRuns[k].fitted = {}

C11_Witness ==
    /\ run > 1
    /\ loaded # {} /\ fitted # {}
    /\ \E o \in Outcomes : o.unit \in loaded /\ o.out.raised = "no"
    /\ \E o \in Outcomes : o.unit \in fitted

\* The inputs with which a call of poly on an empty cache completes: one
\* label per row, a class with n_folds members, no fit that raises, and
\* classifiers whose held-out scores are one value per row.
Completes ==
    /\ assert_rows(label) /\ ~PlannerRaises(y)
    /\ fitFails = {}
    /\ \A c \in Range(classifiers) : Battery[c].has = {"decision_function"}

\* The scores of (classifier, fold) in a call that fits every unit.
FittedScores(c, n) ==
    [train |-> _scorer(Fit(c, kf[n][1], y), kf[n][1], y),
     test |-> _scorer(Fit(c, kf[n][1], y), kf[n][2], y)]

\* C12: when a call with save (started on an empty cache, with inputs on
\* which poly completes) was killed at any point of the dispatch, the next
\* call on the same inputs does not fail, and when it completes it has loaded
\* every unit whose file the killed call left, fitted only the others, and
\* returns the scores of an uninterrupted call.
C12_InterruptedRunIsResumed ==
    (/\ run > 1
     /\ hist[run - 1].outcome = "interrupted" /\ hist[run - 1].save
     /\ hist[run - 1].cache0 = {} /\ hist[run - 1].label = label
     /\ Completes)
    => /\ pc # "failed"
       /\ pc = "done" =>
             /\ loaded = { u \in Units(classifiers) :
                             \E f \in cache0 : f.name = file_name(u[1], u[2]) }
             /\ fitted = Units(classifiers) \ loaded
             /\ \A c \in Range(classifiers) : \A n \in Folds :
                   scores[c][n] = FittedScores(c, n)

\* C13: the voting ensemble scored for fold n is made of the models the
\* units (c, n) returned, one per base classifier and no other (none of
\* another fold, not a voter), and it is scored on the train and on the test
\* rows of fold n.
C13_VoterOfFoldFromThatFoldsModels ==
    pc \in {"save", "done"} =>
        \A n \in Folds :
            LET ens == { UnitResult(c, n).clf : c \in Range(classifiers) }
                v == scores["Voting"][n]
            IN  /\ v.train.clf = MyVoter(ens) /\ v.train.rows = kf[n][1]
                /\ v.test.clf = MyVoter(ens) /\ v.test.rows = kf[n][2]
                /\ Cardinality(v.train.clf.estimators) = Len(classifiers)
                /\ \A c \in Range(classifiers) :
                      \E m \in v.train.clf.estimators :
                          m.name = c /\ m.train = kf[n][1]

C13_Witness ==
    /\ pc = "done"
    /\ Len(classifiers) = 2
    /\ scores["Voting"][0].test.clf.estimators
          \cap scores["Voting"][1].test.clf.estimators = {}
    /\ loaded # {}

\* C14: every value of the predictions table poly returns, in the columns
\* of the base classifiers and in the 'Voting' column, is one of the labels
\* poly was given (a label before the encoding).
C14_PredictionsInOriginalLabels ==
    pc = "done" =>
        \A c \in DOMAIN predictions : \A r \in Rows :
            predictions[c][r] \in classes_(label)

\* C15: no step of a work unit (taking it, loading, fitting, dumping,
\* scoring) changes the shared labels or the shared fold plan, and from the
\* dispatch to the end of the call the aggregation and the voting work on
\* the plan made at the start of the call.
C15_WorkUnitsLeaveSharedStateAlone ==
    /\ [][(pc = "dispatch" /\ pool' # pool) => (label' = label /\ kf' = kf)]_vars
    /\ [][(pc \in {"dispatch", "gather", "voting", "save"} /\ pc' # "start")
            => (label' = label /\ kf' = kf)]_vars

C15_Witness ==
    /\ pc = "voting"
    /\ concurrency > 1
    /\ fitted # {} /\ kf # <<>>
    /\ \E i \in DOMAIN outqueue : outqueue[i][1] # i

\* The scoring branch of a task with the run's number of classes.
RunMetric == IF n_class = 2 THEN "roc_auc" ELSE "f1"

\* The capability _scorer uses for a binary task.
FirstCapability(clf) ==
    IF hasattr(clf, "predict_proba") THEN "predict_proba"
    ELSE IF hasattr(clf, "decision_function") THEN "decision_function"
         ELSE "predict"

\* The folds whose training rows hold every class of the run.
FullTrainFolds ==
    { n \in Folds : Cardinality({ y[r] : r \in kf[n][1] }) = n_class }

\* C16: in a run every score (a unit's train score and test score, the
\* voter's train score and test score) is computed in the same branch, AUC
\* over the first capability at hand when the task is binary and F1 over the
\* hard predictions otherwise (taken over the folds whose training rows hold
\* every class).
C16_OneScoringBranchPerRun ==
    /\ \A o \in Outcomes :
          (o.out.raised = "no" /\ o.unit[2] \in FullTrainFolds) =>
              \A s \in {o.out.train_score, o.out.test_score} :
                  /\ s.metric = RunMetric
                  /\ s.via = IF RunMetric = "roc_auc"
                             THEN FirstCapability(o.out.clf) ELSE "predict"
    /\ pc \in {"save", "done"} =>
          \A n \in FullTrainFolds :
              /\ scores["Voting"][n].train.metric = RunMetric
              /\ scores["Voting"][n].test.metric = RunMetric

\* C17: over calls of poly that share the project name, whatever the labels
\* of each call, a model that a unit (c, n) scores was fitted on the training
\* rows of fold n of this call's plan, with this call's labels; no row of the
\* fold's test set is among the rows it was fitted on.
C17_ScoredModelFittedOnThisPlan ==
    \A o \in Outcomes :
        o.out.raised = "no" =>
            LET n == o.unit[2]
            IN  /\ o.out.clf.train = kf[n][1]
                /\ o.out.clf.y = [t \in kf[n][1] |-> y[t]]
                /\ o.out.clf.train \cap kf[n][2] = {}

\* The sum of the entries of a matrix.
RECURSIVE SumCells(_, _)
SumCells(cell, S) ==
    IF S = {} THEN 0
    ELSE LET ij == CHOOSE x \in S : TRUE
         IN  cell[ij] + SumCells(cell, S \ {ij})

Total(m) == SumCells(m.cell, DOMAIN m.cell)

\* C18: for every classifier and for 'Voting', the confusion matrix poly
\* returns is n_class x n_class, the matrices of the classifier's folds that
\* were summed into it are n_class x n_class each, and its entries add up to
\* the number of rows.
C18_ConfusionsCountEveryRowOnce ==
    pc = "done" =>
        /\ \A c \in DOMAIN confusions :
              confusions[c].dim = n_class /\ Total(confusions[c]) = NRows
        /\ \A c \in Range(classifiers) : \A n \in Folds :
              UnitResult(c, n).confusion.dim = n_class

\* C19: for every classifier the gather loop completes, whether the units
\* returned predict_proba output or decision_function output, and leaves in
\* test_prob one slot per row, each filled once, from the Fold Result of the
\* fold that held the row out (taken over the binary tasks whose folds all
\* have both classes among their training rows).
C19_TestProbFilledOncePerRow ==
    (pc = "gather" /\ gathered = 0 /\ n_class = 2 /\ FullTrainFolds = Folds) =>
        \A ci \in DOMAIN classifiers :
            LET g == Gathered(result, ci)
            IN  /\ g.raised = "no"
                /\ DOMAIN g.temp_prob = Rows
                /\ \A r \in Rows :
                      /\ Len(g.prob_writes[r]) = 1
                      /\ r \in kf[g.prob_writes[r][1]][2]

====
